---- MODULE Spec2Model ----
(***************************************************************************)
(* State-machine model of dingo/gw/SVD.py: the SVDBasis object             *)
(* (generate_basis, test_basis, from_file, from_V, to_file and the two     *)
(* coefficient transforms) and generate_and_save_reduced_basis.            *)
(*                                                                         *)
(* Matrices are symbolic: a matrix is a record [rows, cols, e] whose       *)
(* entry e[<<i, j>>] is a label <<tag, a, b, c>> naming the factorisation  *)
(* it comes from (tag), the position (a, b) it has in that factorisation's *)
(* Vh, and whether it is complex-conjugated (c).  Transposition, complex   *)
(* conjugation and numpy slicing are computed on these entries.            *)
(***************************************************************************)
EXTENDS Integers, Sequences, FiniteSets, TLC

\* ------------------------------------------------------------------ bounds
MaxM == 2        \* rows (samples) of a training matrix: 1..MaxM
MaxK == 2        \* columns (signal length) of a training matrix: 1..MaxK
MaxN == 3        \* requested number of basis elements: 0..MaxN
MaxT == 1        \* rows of a test matrix: 0..MaxT
MaxCand == 3     \* candidate ranks of test_basis: 0..MaxCand

Min(a, b) == IF a <= b THEN a ELSE b

\* Python's None (and an attribute that was never assigned); a value x that
\* is set is held as <<x>>.
None == <<>>
Some(x) == <<x>>
Val(o) == o[1]

Range(f) == {f[i] : i \in DOMAIN f}

\* ---------------------------------------------------------------- matrices
Mat(tag, rows, cols, c) ==
    [rows |-> rows, cols |-> cols,
     e |-> [ij \in (1..rows) \X (1..cols) |-> <<tag, ij[1], ij[2], c>>]]

Conj(x) == <<x[1], x[2], x[3], ~x[4]>>

\* M.T.conj()
ConjT(M) ==
    [rows |-> M.cols, cols |-> M.rows,
     e |-> [ij \in (1..M.cols) \X (1..M.rows) |-> Conj(M.e[<<ij[2], ij[1]>>])]]

\* M[:j, :] for j >= 0: numpy clips the slice at the number of rows
SliceRows(M, j) ==
    [rows |-> Min(j, M.rows), cols |-> M.cols,
     e |-> [ij \in (1..Min(j, M.rows)) \X (1..M.cols) |-> M.e[ij]]]

\* M[:, :j] for j >= 0: numpy clips the slice at the number of columns
SliceCols(M, j) ==
    [rows |-> M.rows, cols |-> Min(j, M.cols),
     e |-> [ij \in (1..M.rows) \X (1..Min(j, M.cols)) |-> M.e[ij]]]

\* singular values: a vector of labelled entries
Vec(tag, len) == [i \in 1..len |-> <<tag, i>>]

\* training_data: one m x k matrix per shape
TrainingData == [m : 1..MaxM, k : 1..MaxK]

\* scipy.linalg.svd(training_data, full_matrices=False): Vh is min(m,k) x k
ScipySvd(d) ==
    [s  |-> Vec(<<"scipy", d.m, d.k, 0>>, Min(d.m, d.k)),
     Vh |-> Mat(<<"scipy", d.m, d.k, 0>>, Min(d.m, d.k), d.k, FALSE)]

\* randomized_svd(training_data, nc, random_state=0): a deterministic
\* approximation at nc components; the factors it returns are cut to nc
\* components out of at most min(m,k)
RandomizedSvd(d, nc) ==
    [s  |-> Vec(<<"random", d.m, d.k, nc>>, Min(nc, Min(d.m, d.k))),
     Vh |-> Mat(<<"random", d.m, d.k, nc>>, Min(nc, Min(d.m, d.k)), d.k, FALSE)]

\* --------------------------------------------------------------- SVDBasis
VARIABLES V, Vh, n, s,      \* self.V, self.Vh, self.n, self.s
          files,            \* the .npy files holding a matrix V, by path
          test_stats,       \* the dictionary test_stats of the last call
          outfile,          \* what the last call saved to its outfile
          last              \* the last call: operation, arguments, error, result

basisVars == <<V, Vh, n, s, files, test_stats, outfile, last>>

Paths == {"V_H1.npy"}
Methods == {"random", "scipy", "svds"}

Self == [V |-> V, Vh |-> Vh, n |-> n, s |-> s]

\* SVDBasis.__init__: V, Vh and n are None; the attribute s is not created
EmptyBasis == [V |-> None, Vh |-> None, n |-> None, s |-> None]

Ok(b) == [b |-> b, err |-> ""]
Raise(b, err) == [b |-> b, err |-> err]

\* generate_basis, method "random"
GenerateRandom(d, nn) ==
    LET n0 == IF nn = 0 THEN Min(d.m, d.k) ELSE nn
        f  == RandomizedSvd(d, n0)
    IN  [V |-> Some(ConjT(f.Vh)), Vh |-> Some(f.Vh), n |-> Some(n0), s |-> Some(f.s)]

\* a variant of GenerateScipy that stores the requested n as the rank
\* whenever it truncates
GenerateScipyRequestedRank(d, nn) ==
    LET f   == ScipySvd(d)
        Vf  == ConjT(f.Vh)
        all == (nn = 0) \/ (nn > Vf.rows)
        newV  == IF all THEN Vf ELSE SliceCols(Vf, nn)
        newVh == IF all THEN f.Vh ELSE SliceRows(f.Vh, nn)
    IN  [V |-> Some(newV), Vh |-> Some(newVh),
         n |-> Some(IF all THEN newVh.rows ELSE nn), s |-> Some(f.s)]

\* generate_basis, method "scipy": len(V) is the number of rows of V
GenerateScipy(d, nn) ==
    LET f   == ScipySvd(d)
        Vf  == ConjT(f.Vh)
        all == (nn = 0) \/ (nn > Vf.rows)
        newV  == IF all THEN Vf ELSE SliceCols(Vf, nn)
        newVh == IF all THEN f.Vh ELSE SliceRows(f.Vh, nn)
    IN  [V |-> Some(newV), Vh |-> Some(newVh), n |-> Some(newVh.rows), s |-> Some(f.s)]

\* a variant of GenerateUnsupported that clears the basis before raising
GenerateUnsupportedCleared(b) == Raise(EmptyBasis, "ValueError")

\* generate_basis, any other method: raise ValueError, nothing assigned
GenerateUnsupported(b) == Raise(b, "ValueError")

generate_basis(b, d, nn, method) ==
    IF method = "random" THEN Ok(GenerateRandom(d, nn))
    ELSE IF method = "scipy" THEN Ok(GenerateScipy(d, nn))
    ELSE GenerateUnsupported(b)

\* from_V: V, Vh and n are assigned; s is not
from_V(b, M) ==
    Ok([V |-> Some(M), Vh |-> Some(ConjT(M)), n |-> Some(M.cols), s |-> b.s])

\* from_file: np.load raises when there is no such file
from_file(b, fs, path) ==
    IF fs[path] = None THEN Raise(b, "FileNotFoundError")
    ELSE from_V(b, Val(fs[path]))

\* to_file: np.save(filename, self.V) unless V is None
to_file(b, fs, path) ==
    IF b.V # None THEN [fs EXCEPT ![path] = b.V] ELSE fs

\* ------------------------------------------------------------- test_basis
\* test_data: T rows of kk entries each
TestData == [T : 0..MaxT, kk : 1..MaxK]

\* n_values: ascending candidate ranks, one or two of them
CandidateRanks ==
    {<<c>> : c \in 1..MaxCand}
      \cup {cc \in (1..MaxCand) \X (1..MaxCand) : cc[1] < cc[2]}

EmptyStats(b) == [s |-> Val(b.s), mismatches |-> <<>>, max_deviations |-> <<>>]

\* a variant of Tested that also skips the fitted rank itself
TestedBelowRank(b, c) == ~(c >= Val(b.n))

\* a candidate rank the loop body runs for (line 82 does not skip it)
Tested(b, c) == ~(c > Val(b.n))

\* the inner loop over the samples fails in h_test @ V[:, :c] or in
\* h_RB @ Vh[:c] when the inner dimensions differ
SampleLoopFails(b, td, c) ==
    /\ td.T >= 1
    /\ \/ td.kk # Val(b.V).rows
       \/ SliceCols(Val(b.V), c).cols # SliceRows(Val(b.Vh), c).rows

\* lines 94-97: one entry per test sample under the key c
Record(stats, b, td, c) ==
    LET nc == SliceCols(Val(b.V), c).cols IN
    [stats EXCEPT
       !.mismatches = [k \in DOMAIN stats.mismatches \cup {c} |->
                          IF k = c THEN [j \in 1..td.T |-> <<"mismatch", nc, j>>]
                          ELSE stats.mismatches[k]],
       !.max_deviations = [k \in DOMAIN stats.max_deviations \cup {c} |->
                          IF k = c THEN [j \in 1..td.T |-> <<"max_deviation", nc, j>>]
                          ELSE stats.max_deviations[k]]]

\* the loop of lines 81-107 from the i-th candidate rank on; np.max of line
\* 102 raises on an array of no mismatches
RECURSIVE TestLoop(_, _, _, _, _)
TestLoop(b, td, n_values, i, stats) ==
    IF i > Len(n_values) THEN [stats |-> stats, err |-> ""]
    ELSE LET c == n_values[i] IN
         IF ~Tested(b, c) THEN TestLoop(b, td, n_values, i + 1, stats)
         ELSE IF SampleLoopFails(b, td, c) THEN [stats |-> stats, err |-> "ValueError"]
         ELSE IF td.T = 0 THEN [stats |-> Record(stats, b, td, c), err |-> "ValueError"]
         ELSE TestLoop(b, td, n_values, i + 1, Record(stats, b, td, c))

\* test_basis: line 80 reads self.s, which raises when s was never assigned
test_basis(b, td, n_values) ==
    IF b.s = None THEN [stats |-> None, err |-> "AttributeError"]
    ELSE LET r == TestLoop(b, td, n_values, 1, EmptyStats(b))
         IN  [stats |-> Some(r.stats), err |-> r.err]

\* ------------------------------------------------ coefficient transforms
Fseries == [rows : {1}, cols : 1..MaxK]

\* x @ M: a product of the shapes, or the error of the operands
MatMul(x, M) ==
    IF M = None THEN [ret |-> None, err |-> "TypeError"]
    ELSE IF x.cols # Val(M).rows THEN [ret |-> None, err |-> "ValueError"]
    ELSE [ret |-> Some([rows |-> x.rows, cols |-> Val(M).cols]), err |-> ""]

fseries_to_basis_coefficients(b, fseries) == MatMul(fseries, b.V)

basis_coefficients_to_fseries(b, coefficients) == MatMul(coefficients, b.Vh)

\* -------------------------------------- generate_and_save_reduced_basis
MaxTrain == 2    \* N_train: 1..MaxTrain
MaxTest == 1     \* N_test: 0..MaxTest
MaxBatch == 3    \* batch_size: 1..MaxBatch
MaxSize == 4     \* samples in the data source: 0..MaxSize

VARIABLES wfd_transform,    \* wfd.transform: "original" or the reduced Compose
          pc,               \* where the call is
          call,             \* the arguments of the call and the data source
          rb_train_data,    \* per ifo, the rows 0..N-1 of the buffer
          batches,          \* batches taken from rb_loader so far
          lower, nb,        \* the loop's locals lower and n
          basis_dict,       \* per ifo, the Basis fitted
          step,             \* index of the ifo the current loop is at
          out_dir,          \* the files written under out_dir, by name
          V_paths,          \* the list V_paths
          raised            \* the error the call ended with, "" if none

builderVars == <<wfd_transform, pc, call, rb_train_data, batches, lower, nb,
                 basis_dict, step, out_dir, V_paths, raised>>

vars == <<basisVars, builderVars>>

\* list(wfd[0][1].keys())
Ifos == <<"H1", "L1">>

\* n_rb: keep all, fewer than the default candidate ranks, the first of them
NRb == {0, 1, 50}

\* the default n_values of test_basis
DefaultNValues == <<50, 100, 128, 200, 300, 500, 600>>

\* np.empty: a row nothing was written to
Uninit == <<"uninitialized">>

\* sample i of the data source, channel ifo
Sample(ifo, i) == <<ifo, i>>

\* rows in batch idx of DataLoader(wfd, batch_size): the last one may be short
BatchRows(size, batch_size, idx) == Min(batch_size, size - idx * batch_size)

\* len(rb_loader)
NumBatches(size, batch_size) == (size + batch_size - 1) \div batch_size

\* a variant of BatchNeed that always takes the whole batch
BatchNeedWhole(batch_size, N, lo) == batch_size

\* line 220
BatchNeed(batch_size, N, lo) == Min(batch_size, N - lo)

\* line 222 for one ifo: buf[lo : lo + cnt] = batch[:cnt], where the batch
\* holds rows samples of the source from first on.  The target slice is
\* clipped at the buffer's end, the source slice at the batch's end; a
\* single source row is broadcast; other shapes that differ raise.
SliceAssign(buf, N, ifo, lo, cnt, first, rows) ==
    LET hi  == Min(lo + cnt, N)
        src == Min(cnt, rows)
    IN  IF src = hi - lo
        THEN [ok |-> TRUE,
              buf |-> [i \in 0..(N - 1) |->
                          IF lo <= i /\ i < hi THEN Sample(ifo, first + (i - lo))
                          ELSE buf[i]]]
        ELSE IF src = 1
        THEN [ok |-> TRUE,
              buf |-> [i \in 0..(N - 1) |->
                          IF lo <= i /\ i < hi THEN Sample(ifo, first) ELSE buf[i]]]
        ELSE [ok |-> FALSE, buf |-> buf]

\* ----------------------------------------------------------------- actions
FileNames == {"V", "s", "stats"} \X Range(Ifos)

Init ==
    /\ V = None /\ Vh = None /\ n = None /\ s = None
    /\ files = [p \in Paths |-> None]
    /\ test_stats = None
    /\ outfile = None
    /\ last = [op |-> "__init__", err |-> "", a |-> <<>>, ret |-> None]
    /\ wfd_transform = "original"
    /\ pc = "idle"
    /\ call = None
    /\ rb_train_data = None
    /\ batches = 0 /\ lower = 0 /\ nb = 0
    /\ basis_dict = <<>>
    /\ step = 1
    /\ out_dir = [f \in FileNames |-> None]
    /\ V_paths = <<>>
    /\ raised = ""

SetSelf(b) == V' = b.V /\ Vh' = b.Vh /\ n' = b.n /\ s' = b.s

NoStats == test_stats' = None /\ outfile' = None

GenerateBasis ==
    \E d \in TrainingData, nn \in 0..MaxN, method \in Methods :
        LET r == generate_basis(Self, d, nn, method) IN
        /\ SetSelf(r.b)
        /\ last' = [op |-> "generate_basis", err |-> r.err,
                    a |-> [d |-> d, n |-> nn, method |-> method], ret |-> None]
        /\ NoStats
        /\ UNCHANGED files
        /\ UNCHANGED builderVars

\* matrices a caller hands to from_V
UserShapes == {<<2, 1>>, <<1, 2>>}
UserV == {Mat(<<"user", rc[1], rc[2], 0>>, rc[1], rc[2], FALSE) : rc \in UserShapes}

FromV ==
    \E M \in UserV :
        LET r == from_V(Self, M) IN
        /\ SetSelf(r.b)
        /\ last' = [op |-> "from_V", err |-> r.err, a |-> [V |-> M], ret |-> None]
        /\ NoStats
        /\ UNCHANGED files
        /\ UNCHANGED builderVars

FromFile ==
    \E path \in Paths :
        LET r == from_file(Self, files, path) IN
        /\ SetSelf(r.b)
        /\ last' = [op |-> "from_file", err |-> r.err, a |-> [path |-> path], ret |-> None]
        /\ NoStats
        /\ UNCHANGED files
        /\ UNCHANGED builderVars

ToFile ==
    \E path \in Paths :
        /\ files' = to_file(Self, files, path)
        /\ last' = [op |-> "to_file", err |-> "", a |-> [path |-> path], ret |-> None]
        /\ NoStats
        /\ UNCHANGED <<V, Vh, n, s>>
        /\ UNCHANGED builderVars

\* test_basis; save says whether an outfile is given (lines 109-110)
TestBasis ==
    \E td \in TestData, n_values \in CandidateRanks, save \in BOOLEAN :
        LET r == test_basis(Self, td, n_values) IN
        /\ test_stats' = r.stats
        /\ outfile' = IF save /\ r.err = "" THEN r.stats ELSE None
        /\ last' = [op |-> "test_basis", err |-> r.err,
                    a |-> [test_data |-> td, n_values |-> n_values, save |-> save],
                    ret |-> None]
        /\ UNCHANGED <<V, Vh, n, s, files>>
        /\ UNCHANGED builderVars

FseriesToBasisCoefficients ==
    \E x \in Fseries :
        LET r == fseries_to_basis_coefficients(Self, x) IN
        /\ last' = [op |-> "fseries_to_basis_coefficients", err |-> r.err,
                    a |-> [x |-> x], ret |-> r.ret]
        /\ NoStats
        /\ UNCHANGED <<V, Vh, n, s, files>>
        /\ UNCHANGED builderVars

BasisCoefficientsToFseries ==
    \E x \in [rows : {1}, cols : 1..MaxN] :
        LET r == basis_coefficients_to_fseries(Self, x) IN
        /\ last' = [op |-> "basis_coefficients_to_fseries", err |-> r.err,
                    a |-> [x |-> x], ret |-> r.ret]
        /\ NoStats
        /\ UNCHANGED <<V, Vh, n, s, files>>
        /\ UNCHANGED builderVars

\* lines 203-216: the transform is replaced, one sample is probed for the
\* ifos and the signal length M, the buffers are allocated
Call ==
    /\ pc = "idle"
    /\ \E N_train \in 1..MaxTrain, N_test \in 0..MaxTest, batch_size \in 1..MaxBatch,
          size \in 1..MaxSize, M \in 1..MaxK, n_rb \in NRb, save \in BOOLEAN :
          call' = Some([N_train |-> N_train, N_test |-> N_test, N |-> N_train + N_test,
                        batch_size |-> batch_size, size |-> size, M |-> M,
                        n_rb |-> n_rb, save |-> save])
    /\ wfd_transform' = "reduced"
    /\ rb_train_data' =
          Some([ifo \in Range(Ifos) |-> [i \in 0..(Val(call').N - 1) |-> Uninit]])
    /\ pc' = "stream"
    /\ UNCHANGED <<batches, lower, nb, basis_dict, step, out_dir, V_paths, raised>>
    /\ UNCHANGED basisVars

\* lines 217-224: one iteration of the loop over rb_loader
Batch ==
    /\ pc = "stream"
    /\ batches < NumBatches(Val(call).size, Val(call).batch_size)
    /\ LET c   == Val(call)
           idx == batches
           lo  == idx * c.batch_size
           cnt == BatchNeed(c.batch_size, c.N, lo)
           w   == [ifo \in Range(Ifos) |->
                      SliceAssign(Val(rb_train_data)[ifo], c.N, ifo, lo, cnt,
                                  idx * c.batch_size,
                                  BatchRows(c.size, c.batch_size, idx))]
       IN  /\ batches' = idx + 1
           /\ lower' = lo
           /\ nb' = cnt
           /\ IF \A ifo \in Range(Ifos) : w[ifo].ok
              THEN /\ rb_train_data' = Some([ifo \in Range(Ifos) |-> w[ifo].buf])
                   /\ pc' = IF lo + cnt = c.N THEN "fit" ELSE "stream"
                   /\ raised' = ""
              ELSE /\ rb_train_data' = rb_train_data
                   /\ pc' = "raised"
                   /\ raised' = "ValueError"
    /\ UNCHANGED <<wfd_transform, call, basis_dict, step, out_dir, V_paths>>
    /\ UNCHANGED basisVars

\* the loop ends because rb_loader has no further batch
Exhausted ==
    /\ pc = "stream"
    /\ batches = NumBatches(Val(call).size, Val(call).batch_size)
    /\ pc' = "fit"
    /\ UNCHANGED <<wfd_transform, call, rb_train_data, batches, lower, nb,
                   basis_dict, step, out_dir, V_paths, raised>>
    /\ UNCHANGED basisVars

\* the data source raises while a batch is loaded
IterationFails ==
    /\ pc = "stream"
    /\ batches < NumBatches(Val(call).size, Val(call).batch_size)
    /\ pc' = "raised"
    /\ raised' = "DataSourceError"
    /\ UNCHANGED <<wfd_transform, call, rb_train_data, batches, lower, nb,
                   basis_dict, step, out_dir, V_paths>>
    /\ UNCHANGED basisVars

\* rows of the training part rb_train_data[ifo][:N_train] never written
Unwritten(ifo) ==
    {i \in 0..(Val(call).N_train - 1) : Val(rb_train_data)[ifo][i] = Uninit}

AfterLoop(next) ==
    IF step = Len(Ifos) THEN pc' = next /\ step' = 1
    ELSE pc' = pc /\ step' = step + 1

\* lines 231-236 for one ifo
FitIfo ==
    /\ pc = "fit"
    /\ LET c   == Val(call)
           ifo == Ifos[step]
           r   == generate_basis(EmptyBasis, [m |-> c.N_train, k |-> c.M],
                                 c.n_rb, "random")
       IN  /\ basis_dict' = (ifo :> r.b) @@ basis_dict
           /\ AfterLoop(IF c.save THEN "save" ELSE "restore")
    /\ UNCHANGED <<wfd_transform, call, rb_train_data, batches, lower, nb,
                   out_dir, V_paths, raised>>
    /\ UNCHANGED basisVars

\* the factorisation raises on what np.empty left in rows never written
FitFails ==
    /\ pc = "fit"
    /\ Unwritten(Ifos[step]) # {}
    /\ pc' = "raised"
    /\ raised' = "ValueError"
    /\ UNCHANGED <<wfd_transform, call, rb_train_data, batches, lower, nb,
                   basis_dict, step, out_dir, V_paths>>
    /\ UNCHANGED basisVars

\* lines 243-246 for one ifo
SaveIfo ==
    /\ pc = "save"
    /\ LET ifo == Ifos[step]
           b   == basis_dict[ifo]
           fs  == to_file(b, out_dir, <<"V", ifo>>)
       IN  /\ out_dir' = [fs EXCEPT ![<<"s", ifo>>] = b.s]
           /\ V_paths' = Append(V_paths, <<"V", ifo>>)
    /\ AfterLoop("test")
    /\ UNCHANGED <<wfd_transform, call, rb_train_data, batches, lower, nb,
                   basis_dict, raised>>
    /\ UNCHANGED basisVars

\* np.save raises
SaveFails ==
    /\ pc = "save"
    /\ pc' = "raised"
    /\ raised' = "StorageError"
    /\ UNCHANGED <<wfd_transform, call, rb_train_data, batches, lower, nb,
                   basis_dict, step, out_dir, V_paths>>
    /\ UNCHANGED basisVars

\* lines 252-256 for one ifo
TestIfo ==
    /\ pc = "test"
    /\ LET c   == Val(call)
           ifo == Ifos[step]
           r   == test_basis(basis_dict[ifo], [T |-> c.N_test, kk |-> c.M],
                             DefaultNValues)
       IN  IF r.err = ""
           THEN /\ out_dir' = [out_dir EXCEPT ![<<"stats", ifo>>] = r.stats]
                /\ AfterLoop("restore")
                /\ raised' = ""
           ELSE /\ out_dir' = out_dir
                /\ pc' = "raised" /\ step' = step
                /\ raised' = r.err
    /\ UNCHANGED <<wfd_transform, call, rb_train_data, batches, lower, nb,
                   basis_dict, V_paths>>
    /\ UNCHANGED basisVars

\* lines 259-262
Restore ==
    /\ pc = "restore"
    /\ wfd_transform' = "original"
    /\ pc' = "returned"
    /\ UNCHANGED <<call, rb_train_data, batches, lower, nb, basis_dict, step,
                   out_dir, V_paths, raised>>
    /\ UNCHANGED basisVars

Next ==
    \/ GenerateBasis \/ FromV \/ FromFile \/ ToFile
    \/ TestBasis \/ FseriesToBasisCoefficients \/ BasisCoefficientsToFseries

Spec == Init /\ [][Next]_vars

\* the fitting and validating operations alone, without the file store
NextFit == GenerateBasis \/ FromV \/ TestBasis

SpecFit == Init /\ [][NextFit]_vars

\* one call of generate_and_save_reduced_basis
NextBuilder ==
    \/ Call \/ Batch \/ Exhausted \/ IterationFails
    \/ FitIfo \/ FitFails \/ SaveIfo \/ SaveFails \/ TestIfo \/ Restore

SpecBuilder == Init /\ [][NextBuilder]_vars

\* ------------------------------------------------------------------ claims
Populating == {"generate_basis", "from_file", "from_V"}

\* what a populating call makes of a Basis b
Populate(b, op, a) ==
    IF op = "generate_basis" THEN generate_basis(b, a.d, a.n, a.method)
    ELSE IF op = "from_V" THEN from_V(b, a.V)
    ELSE from_file(b, files, a.path)

\* C1: a populated Basis has Vh equal to the conjugate transpose of V and a
\* rank n equal to the number of columns of V, whatever populated it.
C1_VhAndRank ==
    V # None => /\ Vh = Some(ConjT(Val(V)))
                /\ n = Some(Val(V).cols)

\* C2: V, Vh, the rank n and the singular values s are all set or all unset.
C2_AllOrNone ==
    \/ V = None /\ Vh = None /\ n = None /\ s = None
    \/ V # None /\ Vh # None /\ n # None /\ s # None

\* C3: after a populating call that succeeded, the Basis is what the same
\* call makes of an empty Basis: nothing is kept from before the call.
C3_ReplacesPriorState ==
    (last.op \in Populating /\ last.err = "")
        => Self = Populate(EmptyBasis, last.op, last.a).b

\* C4: the exact method on an m x k matrix leaves rank and rows of Vh at
\* min(m, k) for n = 0 and at min(n, min(m, k)) for n > 0.
C4_ScipyRank ==
    (last.op = "generate_basis" /\ last.a.method = "scipy")
        => LET natural == Min(last.a.d.m, last.a.d.k)
               want == IF last.a.n = 0 THEN natural ELSE Min(last.a.n, natural)
           IN  /\ n = Some(want)
               /\ Val(Vh).rows = want

\* a request above the natural rank that is not above len(V)
C4_Witness ==
    /\ last.op = "generate_basis" /\ last.a.method = "scipy"
    /\ last.a.n > Min(last.a.d.m, last.a.d.k) /\ last.a.n <= last.a.d.k
    /\ n = Some(Min(last.a.d.m, last.a.d.k))

\* C5: generate_basis with a method other than 'random' and 'scipy' raises
\* ValueError and leaves V, Vh, n and s as they were.
C5_UnsupportedMethod ==
    [][(last'.op = "generate_basis" /\ last'.a.method \notin {"random", "scipy"})
          => (last'.err = "ValueError" /\ UNCHANGED <<V, Vh, n, s>>)]_vars

\* the call failed on a populated Basis
C5_Witness ==
    /\ last.op = "generate_basis" /\ last.err = "ValueError"
    /\ V # None /\ s # None

\* C6: on a fitted Basis the statistics of a test_basis call that returns
\* are keyed by exactly the candidate ranks not above the fitted rank, with
\* one value per test sample; a rank above the fitted rank is never a key
\* and never the cause of an error.
C6_SkippedRanks ==
    (last.op = "test_basis" /\ V # None /\ s # None)
        => LET cands == Range(last.a.n_values)
               kept == {c \in cands : c <= Val(n)}
               T == last.a.test_data.T
               st == Val(test_stats)
           IN  /\ DOMAIN st.mismatches \subseteq kept
               /\ DOMAIN st.max_deviations \subseteq kept
               /\ last.err # "" => kept # {}
               /\ last.err = "" =>
                     /\ DOMAIN st.mismatches = kept
                     /\ DOMAIN st.max_deviations = kept
                     /\ \A c \in kept : /\ Len(st.mismatches[c]) = T
                                        /\ Len(st.max_deviations[c]) = T

\* a call that returned, with one rank skipped and one rank tested
C6_Witness ==
    /\ last.op = "test_basis" /\ last.err = "" /\ V # None /\ s # None
    /\ last.a.test_data.T >= 1
    /\ \E c \in Range(last.a.n_values) : c > Val(n)
    /\ \E c \in Range(last.a.n_values) :
          c <= Val(n) /\ c \in DOMAIN Val(test_stats).mismatches

\* C7: to_file and then from_file of the same path give the same V, Vh its
\* conjugate transpose, and the rank of the Basis that was saved.
C7_SaveLoadRoundTrip ==
    [][(/\ last.op = "to_file" /\ V # None
        /\ last'.op = "from_file" /\ last'.a.path = last.a.path)
          => /\ last'.err = ""
             /\ V' = V
             /\ Vh' = Some(ConjT(Val(V')))
             /\ n' = n]_vars

\* the call is past the loop over rb_loader and has not failed
PastLoop == pc \in {"fit", "save", "test", "restore", "returned"}

\* C8: on every exit of generate_and_save_reduced_basis, by return or by
\* an error, wfd.transform is the transform the call started with.
C8_TransformRestored ==
    pc \in {"returned", "raised"} => wfd_transform = "original"

\* C9: a data source that runs out before the buffers are filled never
\* gets the call past the loop: no Basis is fitted or validated on a
\* buffer with rows that were never written.
C9_InsufficientData ==
    PastLoop => \A i \in 1..Len(Ifos) : \A r \in 0..(Val(call).N - 1) :
                   Val(rb_train_data)[Ifos[i]][r] # Uninit

\* C10: with a source of at least N samples, no iteration writes past row
\* N - 1, and once the loop is over row i of every buffer holds sample i
\* and ceil(N / batch_size) batches were taken.
C10_BufferFilled ==
    (call # None /\ Val(call).size >= Val(call).N)
        => LET c == Val(call) IN
           /\ lower + nb <= c.N
           /\ PastLoop =>
                 /\ \A i \in 1..Len(Ifos) : \A r \in 0..(c.N - 1) :
                       Val(rb_train_data)[Ifos[i]][r] = Sample(Ifos[i], r)
                 /\ batches = (c.N + c.batch_size - 1) \div c.batch_size

\* the loop ended on a batch of which only a part was needed
C10_Witness ==
    /\ pc = "fit" /\ Val(call).size >= Val(call).N
    /\ batches >= 2 /\ nb >= 1 /\ nb < Val(call).batch_size
    /\ lower + nb = Val(call).N

====
